---- MODULE Spec2Model ----
(***************************************************************************)
(* Florist One proxy (Vercel Edge): api/floristone/[[...path]].ts          *)
(*                                                                         *)
(* One inbound request is handled by `handler`; the handler runs to its    *)
(* first suspension point (the upstream fetch of fetchFollow) and is       *)
(* resumed once per upstream answer.                                       *)
(*                                                                         *)
(* Representation.                                                         *)
(*   - text that the code processes character by character (the `api`      *)
(*     selector, the Authorization value) is a sequence of one-character   *)
(*     strings; credentials are sequences of code points;                  *)
(*   - a URL is a record [host, path, query]; path is the sequence of the  *)
(*     segments between the "/" of the path ("/a/b/" is <<"a","b","">>),   *)
(*     query the sequence of <<key, value>> pairs; the scheme is https     *)
(*     throughout;                                                         *)
(*   - a URL reference (the path suffix, a Location value) is the string   *)
(*     split at "/": "" is <<"">>, "a/b" is <<"a","b">>, "/a" is           *)
(*     <<"","a">>, "//h/x" is <<"","","h","x">>;                           *)
(*   - a header set is a function from the names present to their values.  *)
(***************************************************************************)
EXTENDS Integers, Sequences, FiniteSets, TLC

VARIABLES
    env,        \* process.env: the variables that are set, with their values
    req,        \* the inbound Request
    upstream,   \* number of consecutive Location-carrying redirects the upstream
                \* answers before it answers anything else
    pc,         \* "start" | "fetching" | "returned" | "threw"
    i,          \* fetchFollow: loop counter
    cur,        \* fetchFollow: currentUrl and currentInit, the request in flight
    first,      \* the first upstream request issued
    prev,       \* the upstream request answered last, with its answer
    sent,       \* number of upstream requests issued (calls of fetch)
    seen,       \* statuses of the redirect answers followed so far
    response,   \* what the handler returned (or the exception that escaped)
    suspended,  \* the registers (req .. response) of a second invocation that
                \* waits at a suspension point while this one runs, if any
    policy      \* how the upstream answers when two invocations are compared

vars == <<env, req, upstream, pc, i, cur, first, prev, sent, seen, response,
          suspended, policy>>

----------------------------------------------------------------------------
(* Text helpers *)

\* String.prototype.toLowerCase on one character of the selector alphabet
LowerChar(c) ==
    CASE c = "A" -> "a" [] c = "C" -> "c" [] c = "E" -> "e" [] c = "F" -> "f"
      [] c = "H" -> "h" [] c = "L" -> "l" [] c = "O" -> "o" [] c = "P" -> "p"
      [] c = "R" -> "r" [] c = "S" -> "s" [] c = "T" -> "t" [] c = "W" -> "w"
      [] OTHER -> c

toLowerCase(s) == [n \in 1..Len(s) |-> LowerChar(s[n])]

\* the base64 alphabet of btoa / Buffer#toString("base64")
B64Chars ==
    << "A","B","C","D","E","F","G","H","I","J","K","L","M","N","O","P",
       "Q","R","S","T","U","V","W","X","Y","Z","a","b","c","d","e","f",
       "g","h","i","j","k","l","m","n","o","p","q","r","s","t","u","v",
       "w","x","y","z","0","1","2","3","4","5","6","7","8","9","+","/" >>

RECURSIVE Base64(_)
Base64(bytes) ==
    IF bytes = <<>> THEN <<>>
    ELSE IF Len(bytes) = 1 THEN
        << B64Chars[(bytes[1] \div 4) + 1],
           B64Chars[((bytes[1] % 4) * 16) + 1], "=", "=" >>
    ELSE IF Len(bytes) = 2 THEN
        << B64Chars[(bytes[1] \div 4) + 1],
           B64Chars[((bytes[1] % 4) * 16) + (bytes[2] \div 16) + 1],
           B64Chars[((bytes[2] % 16) * 4) + 1], "=" >>
    ELSE
        << B64Chars[(bytes[1] \div 4) + 1],
           B64Chars[((bytes[1] % 4) * 16) + (bytes[2] \div 16) + 1],
           B64Chars[((bytes[2] % 16) * 4) + (bytes[3] \div 64) + 1],
           B64Chars[(bytes[3] % 64) + 1] >>
        \o Base64(SubSeq(bytes, 4, Len(bytes)))

\* UTF-8 bytes of one code point of the basic multilingual plane
Utf8Char(c) ==
    IF c < 128 THEN <<c>>
    ELSE IF c < 2048 THEN << 192 + (c \div 64), 128 + (c % 64) >>
    ELSE << 224 + (c \div 4096), 128 + ((c \div 64) % 64), 128 + (c % 64) >>

RECURSIVE Utf8(_)
Utf8(s) == IF s = <<>> THEN <<>> ELSE Utf8Char(Head(s)) \o Utf8(Tail(s))

Colon == 58

\* b64(user, pass): btoa throws on a code point above 255; the catch
\* branch encodes the UTF-8 bytes with Buffer, a global of the Edge runtime.
b64(user, pass) ==
    LET s == user \o <<Colon>> \o pass
    IN  IF \A n \in 1..Len(s) : s[n] <= 255
        THEN Base64(s)
        ELSE Base64(Utf8(s))

----------------------------------------------------------------------------
(* URLs *)

\* what a failed URL parse leaves: `new URL` throws TypeError
InvalidURL == [invalid |-> TRUE]

IsURL(u) == "host" \in DOMAIN u

\* number of "/" a reference starts with
RECURSIVE LeadingSlashes(_)
LeadingSlashes(ref) ==
    IF Len(ref) >= 2 /\ ref[1] = ""
    THEN 1 + LeadingSlashes(Tail(ref))
    ELSE 0

\* new URL(ref, base) for a parsed base with a special scheme (WHATWG URL):
\*   ""        -> the base itself (its query kept)
\*   "a/b"     -> the base's path without its last segment, then a/b
\*   "/a/b"    -> the base's host, path /a/b
\*   "//h/a"   -> host h, path /a; any further leading "/" are skipped;
\*                an empty host is a failure
ResolveURL(ref, base) ==
    LET n    == LeadingSlashes(ref)
        rest == SubSeq(ref, n + 1, Len(ref))
    IN  IF ref = <<"">> THEN base
        ELSE IF n = 0 THEN
            [host |-> base.host,
             path |-> SubSeq(base.path, 1, Len(base.path) - 1) \o ref,
             query |-> <<>>]
        ELSE IF n = 1 THEN
            [host |-> base.host, path |-> rest, query |-> <<>>]
        ELSE IF rest[1] = "" THEN InvalidURL
        ELSE [host |-> rest[1],
              path |-> IF Len(rest) = 1 THEN <<"">> ELSE Tail(rest),
              query |-> <<>>]

\* URLSearchParams.get: the value of the first pair with the key, if any
\* (a sequence of no or one value)
RECURSIVE SearchGet(_, _)
SearchGet(query, k) ==
    IF query = <<>> THEN <<>>
    ELSE IF Head(query)[1] = k THEN <<Head(query)[2]>>
    ELSE SearchGet(Tail(query), k)

\* URLSearchParams.set: the first pair with the key takes the value and the
\* other pairs with the key are removed; a new key is appended
SearchSet(query, k, v) ==
    LET at == {n \in 1..Len(query) : query[n][1] = k}
    IN  IF at = {} THEN Append(query, <<k, v>>)
        ELSE LET f == CHOOSE n \in at : \A m \in at : n <= m
             IN  SubSeq(query, 1, f - 1) \o << <<k, v>> >>
                 \o SelectSeq(SubSeq(query, f + 1, Len(query)),
                              LAMBDA p : p[1] # k)

----------------------------------------------------------------------------
(* Configuration: module level constants of the handler file *)

F1Host == "www.floristone.com"

DEFAULT_FLOWERSHOP_BASE ==
    [host |-> F1Host, path |-> <<"api", "rest", "flowershop", "">>, query |-> <<>>]
DEFAULT_CART_BASE ==
    [host |-> F1Host, path |-> <<"api", "rest", "cart", "">>, query |-> <<>>]
DEFAULT_TREE_BASE ==
    [host |-> F1Host, path |-> <<"api", "rest", "tree", "">>, query |-> <<>>]

\* s.endsWith("/") ? s : s + "/"
withSlash(s) ==
    IF s.path # <<>> /\ s.path[Len(s.path)] = ""
    THEN s
    ELSE [s EXCEPT !.path = Append(s.path, "")]

\* process.env.NAME || dflt
EnvOr(name, dflt) == IF name \in DOMAIN env THEN env[name] ELSE dflt

FLOWERSHOP_BASE == withSlash(EnvOr("F1_FLOWERSHOP_BASE", DEFAULT_FLOWERSHOP_BASE))
CART_BASE       == withSlash(EnvOr("F1_CART_BASE", DEFAULT_CART_BASE))
TREE_BASE       == withSlash(EnvOr("F1_TREE_BASE", DEFAULT_TREE_BASE))

\* String.prototype.trim on the entries of an origin list
trim(s) == CASE s = " https://shop.example" -> "https://shop.example"
             [] s = "https://app.example "  -> "https://app.example"
             [] OTHER -> s

\* the default of ALLOWED_ORIGINS, split at ","
DefaultOrigins == <<"http://localhost:3000", "https://www.figma.com">>

\* corsHeaders that reflects any origin
corsHeaders_ReflectsOrigin(h) ==
    ("Access-Control-Allow-Origin" :>
        IF "origin" \in DOMAIN h /\ h["origin"] # "" THEN h["origin"] ELSE "*")
    @@ ("Access-Control-Allow-Credentials" :> "false")
    @@ ("Access-Control-Allow-Methods" :> "GET,POST,PATCH,PUT,DELETE,OPTIONS")
    @@ ("Access-Control-Allow-Headers" :> "Content-Type,Authorization,X-Api,Accept")
    @@ ("Vary" :> "Origin")

\* (process.env.ALLOWED_ORIGINS || "...").split(",").map(s => s.trim());
\* the value of the variable is held split at ","
ALLOWED_ORIGINS ==
    LET raw == EnvOr("ALLOWED_ORIGINS", DefaultOrigins)
    IN  [n \in 1..Len(raw) |-> trim(raw[n])]

Sflowershop  == <<"f","l","o","w","e","r","s","h","o","p">>
Scart        == <<"c","a","r","t">>
Stree        == <<"t","r","e","e">>
Sconstructor == <<"c","o","n","s","t","r","u","c","t","o","r">>
Sproto       == <<"_","_","p","r","o","t","o","_","_">>

\* ALLOWED_UPSTREAMS[api]: a property read on an object literal. The three
\* own properties hold strings; `constructor` and `__proto__` are found on
\* Object.prototype; any other name (of lower-case letters) is undefined.
ALLOWED_UPSTREAMS(api) ==
    CASE api = Sflowershop  -> [type |-> "string", url |-> FLOWERSHOP_BASE]
      [] api = Scart        -> [type |-> "string", url |-> CART_BASE]
      [] api = Stree        -> [type |-> "string", url |-> TREE_BASE]
      [] api = Sconstructor -> [type |-> "function"]
      [] api = Sproto       -> [type |-> "object"]
      [] OTHER              -> [type |-> "undefined"]

\* new URL(ref, base): the base is converted to a string and parsed first;
\* String(Object) and String(Object.prototype) are not URLs
NewURL(ref, base) ==
    IF base.type = "string" THEN ResolveURL(ref, base.url) ELSE InvalidURL

Merge(f, g) ==
    [x \in DOMAIN f \cup DOMAIN g |-> IF x \in DOMAIN g THEN g[x] ELSE f[x]]

\* Headers.get(name) is truthy: present and not the empty string
Has(h, name) == name \in DOMAIN h /\ h[name] # ""

corsHeaders(h) ==
    LET allowOrigin ==
            IF Has(h, "origin")
               /\ \E n \in 1..Len(ALLOWED_ORIGINS) : ALLOWED_ORIGINS[n] = h["origin"]
            THEN h["origin"]
            ELSE ALLOWED_ORIGINS[1]
    IN  ("Access-Control-Allow-Origin" :> allowOrigin)
        @@ ("Access-Control-Allow-Credentials" :> "false")
        @@ ("Access-Control-Allow-Methods" :> "GET,POST,PATCH,PUT,DELETE,OPTIONS")
        @@ ("Access-Control-Allow-Headers" :> "Content-Type,Authorization,X-Api,Accept")
        @@ ("Vary" :> "Origin")

JsonHeaders(base) == Merge(base, "Content-Type" :> "application/json")

MaxHops_OneMore == 5 + 1

MaxHops == 5

RedirectStatuses == {301, 302, 303, 307, 308}

----------------------------------------------------------------------------
(* handler: the synchronous part, lines 82-134 *)

NoRequest == [none |-> TRUE]
NoAnswer  == [none |-> TRUE]
NoResponse == [none |-> TRUE]
NoFrame    == [none |-> TRUE]

NullBody      == [null |-> TRUE]
Blob(bytes)   == [blob |-> bytes]
Undefined     == [undefined |-> TRUE]

\* the selector compared as sent
Api_CaseSensitive(r) ==
    LET got == SearchGet(r.query, "api")
    IN  IF got = <<>> \/ got[1] = <<>> THEN Sflowershop ELSE got[1]

\* const api = (url.searchParams.get("api") || "flowershop").toLowerCase()
Api(r) ==
    LET got == SearchGet(r.query, "api")
    IN  toLowerCase(IF got = <<>> \/ got[1] = <<>> THEN Sflowershop ELSE got[1])

UpstreamBase(r) == ALLOWED_UPSTREAMS(Api(r))

\* url.pathname.replace(/^\/api\/floristone\/?/, "") as a reference
PathAfter(pathname) ==
    IF Len(pathname) >= 2 /\ pathname[1] = "api" /\ pathname[2] = "floristone"
    THEN IF Len(pathname) = 2 THEN <<"">> ELSE SubSeq(pathname, 3, Len(pathname))
    ELSE <<"">> \o pathname

\* forwarding with searchParams.append instead of set
RECURSIVE ForwardQuery_Appends(_, _)
ForwardQuery_Appends(query, acc) ==
    IF query = <<>> THEN acc
    ELSE ForwardQuery_Appends(Tail(query),
                              IF Head(query)[1] # "api"
                              THEN Append(acc, Head(query))
                              ELSE acc)

\* url.searchParams.forEach((v, k) => { if (k !== "api") target.searchParams.set(k, v) })
RECURSIVE ForwardQuery(_, _)
ForwardQuery(query, acc) ==
    IF query = <<>> THEN acc
    ELSE ForwardQuery(Tail(query),
                      IF Head(query)[1] # "api"
                      THEN SearchSet(acc, Head(query)[1], Head(query)[2])
                      ELSE acc)

\* const target = new URL(pathAfter || "", upstreamBase), then the query
Target(r) ==
    LET t == NewURL(PathAfter(r.pathname), UpstreamBase(r))
    IN  IF IsURL(t) THEN [t EXCEPT !.query = ForwardQuery(r.query, t.query)]
        ELSE t

\* !key || !pass
Key  == IF "F1_API_KEY" \in DOMAIN env THEN env["F1_API_KEY"] ELSE <<>>
Pass == IF "F1_API_PASSWORD" \in DOMAIN env THEN env["F1_API_PASSWORD"] ELSE <<>>
MissingCredentials == Key = <<>> \/ Pass = <<>>

Basic == <<"B", "a", "s", "i", "c", " ">>

\* outHeaders that lets the client's Authorization through
OutHeaders_ForwardsAuthorization(r) ==
    ("Authorization" :> IF "authorization" \in DOMAIN r.headers
                        THEN r.headers["authorization"]
                        ELSE Basic \o b64(Key, Pass))
    @@ ("Accept" :> IF Has(r.headers, "accept") THEN r.headers["accept"]
                    ELSE "application/json")
    @@ (IF Has(r.headers, "content-type")
        THEN "Content-Type" :> r.headers["content-type"]
        ELSE <<>>)

\* outHeaders, lines 122-126
OutHeaders(r) ==
    ("Authorization" :> (Basic \o b64(Key, Pass)))
    @@ ("Accept" :> IF Has(r.headers, "accept") THEN r.headers["accept"]
                    ELSE "application/json")
    @@ (IF Has(r.headers, "content-type")
        THEN "Content-Type" :> r.headers["content-type"]
        ELSE <<>>)

\* init that passes the inbound body whatever the method
RequestInit_AlwaysBody(r) ==
    [method  |-> r.method,
     headers |-> OutHeaders(r),
     body    |-> Blob(r.body)]

\* init, lines 129-134
RequestInit(r) ==
    [method  |-> r.method,
     headers |-> OutHeaders(r),
     body    |-> IF r.method = "GET" \/ r.method = "HEAD"
                 THEN Undefined ELSE Blob(r.body)]

Return(res) ==
    /\ pc' = "returned"
    /\ response' = res

\* lines 87-89
Preflight ==
    /\ pc = "start"
    /\ req.method = "OPTIONS"
    /\ Return([status |-> 204, headers |-> corsHeaders(req.headers), body |-> NullBody])
    /\ UNCHANGED <<policy, suspended, env, req, upstream, i, cur, first, prev, sent, seen>>

\* the selector check ahead of the preflight check
InvalidSelector_AnyMethod ==
    /\ pc = "start"
    /\ UpstreamBase(req).type = "undefined"
    /\ Return([status |-> 400, headers |-> JsonHeaders(corsHeaders(req.headers)),
               body |-> [error |-> "Invalid API selector"]])
    /\ UNCHANGED <<policy, suspended, env, req, upstream, i, cur, first, prev, sent, seen>>

\* lines 92-99
InvalidSelector ==
    /\ pc = "start"
    /\ req.method # "OPTIONS"
    /\ UpstreamBase(req).type = "undefined"
    /\ Return([status |-> 400, headers |-> JsonHeaders(corsHeaders(req.headers)),
               body |-> [error |-> "Invalid API selector"]])
    /\ UNCHANGED <<policy, suspended, env, req, upstream, i, cur, first, prev, sent, seen>>

\* line 104: new URL throws, outside the try block
InvalidTarget ==
    /\ pc = "start"
    /\ req.method # "OPTIONS"
    /\ UpstreamBase(req).type # "undefined"
    /\ ~IsURL(Target(req))
    /\ pc' = "threw"
    /\ response' = [exception |-> "TypeError", message |-> "Invalid URL"]
    /\ UNCHANGED <<policy, suspended, env, req, upstream, i, cur, first, prev, sent, seen>>

\* lines 110-119
NoCredentials ==
    /\ pc = "start"
    /\ req.method # "OPTIONS"
    /\ UpstreamBase(req).type # "undefined"
    /\ IsURL(Target(req))
    /\ MissingCredentials
    /\ Return([status |-> 500, headers |-> JsonHeaders(corsHeaders(req.headers)),
               body |-> [error |-> "Server missing F1 credentials"]])
    /\ UNCHANGED <<policy, suspended, env, req, upstream, i, cur, first, prev, sent, seen>>

\* lines 122-146 and 60-63: the request is built, fetchFollow is entered and
\* issues the first fetch
Forward ==
    /\ pc = "start"
    /\ req.method # "OPTIONS"
    /\ UpstreamBase(req).type # "undefined"
    /\ IsURL(Target(req))
    /\ ~MissingCredentials
    /\ i' = 0
    /\ cur' = [url |-> Target(req)] @@ RequestInit(req)
    /\ first' = cur'
    /\ sent' = 1
    /\ pc' = "fetching"
    /\ UNCHANGED <<policy, suspended, env, req, upstream, prev, seen, response>>

----------------------------------------------------------------------------
(* fetchFollow, lines 59-79, and the rest of handler, lines 146-162 *)

\* String.prototype.toUpperCase on a method name; Request leaves the case of
\* a method other than DELETE, GET, HEAD, OPTIONS, POST and PUT as sent
toUpperCase(m) == CASE m = "patch" -> "PATCH" [] OTHER -> m

\* 303 treated like 307
NextInit_Ignores303(init, status) ==
    LET method == toUpperCase(IF init.method = "" THEN "GET" ELSE init.method)
    IN  IF (status = 301 \/ status = 302) /\ method # "GET" /\ method # "HEAD"
        THEN [init EXCEPT !.method = "GET", !.body = Undefined]
        ELSE init

\* every redirect status downgrades
NextInit_AlwaysDowngrades(init, status) ==
    LET method == toUpperCase(IF init.method = "" THEN "GET" ELSE init.method)
    IN  IF status = 303 \/ (method # "GET" /\ method # "HEAD")
        THEN [init EXCEPT !.method = "GET", !.body = Undefined]
        ELSE init

\* HEAD is downgraded too
NextInit_DowngradesHead(init, status) ==
    LET method == toUpperCase(IF init.method = "" THEN "GET" ELSE init.method)
    IN  IF status = 303 \/ ((status = 301 \/ status = 302) /\ method # "GET")
        THEN [init EXCEPT !.method = "GET", !.body = Undefined]
        ELSE init

\* the downgrade to GET also drops the entity header
NextInit_DropsContentType(init, status) ==
    LET method == toUpperCase(IF init.method = "" THEN "GET" ELSE init.method)
    IN  IF status = 303
           \/ ((status = 301 \/ status = 302) /\ method # "GET" /\ method # "HEAD")
        THEN [init EXCEPT !.method = "GET", !.body = Undefined,
                          !.headers = [n \in DOMAIN init.headers \ {"Content-Type"}
                                          |-> init.headers[n]]]
        ELSE init

\* lines 72-75: switch to GET and drop the body for 303, and for 301/302
\* when the current method is neither GET nor HEAD
NextInit(init, status) ==
    LET method == toUpperCase(IF init.method = "" THEN "GET" ELSE init.method)
    IN  IF status = 303
           \/ ((status = 301 \/ status = 302) /\ method # "GET" /\ method # "HEAD")
        THEN [init EXCEPT !.method = "GET", !.body = Undefined]
        ELSE init

\* lines 157-161
UpstreamFetchFailedTo(r, detail) ==
    [status  |-> 502,
     headers |-> JsonHeaders(corsHeaders(r.headers)),
     body    |-> [error |-> "Upstream fetch failed", detail |-> detail]]

UpstreamFetchFailed(detail) == UpstreamFetchFailedTo(req, detail)

\* lines 148-156, for the inbound request r
RelayTo(r, res) ==
    [status  |-> res.status,
     headers |-> Merge(Merge(corsHeaders(r.headers),
                             IF res.contentType # <<>> /\ res.contentType[1] # ""
                             THEN "Content-Type" :> res.contentType[1]
                             ELSE <<>>),
                       "Cache-Control" :> "no-store"),
     body    |-> [stream |-> res.body]]

\* a relay that copies the upstream's caching directive
Relay_KeepsCacheControl(res) ==
    [status  |-> res.status,
     headers |-> Merge(Merge(corsHeaders(req.headers),
                             IF res.contentType # <<>> /\ res.contentType[1] # ""
                             THEN "Content-Type" :> res.contentType[1]
                             ELSE <<>>),
                       "Cache-Control" :> IF res.cacheControl # <<>>
                                          THEN res.cacheControl[1] ELSE "no-store"),
     body    |-> [stream |-> res.body]]

\* lines 148-156
Relay(res) == RelayTo(req, res)

IsRedirect(res) == res.status \in RedirectStatuses /\ res.location # <<>>

\* the answers of the upstream (what `await fetch(...)` gives)
ChainLocations == { <<"next">>, <<"", "", "cdn.floristone.example", "x">> }
BadLocation    == <<"", "", "">>

ChainAnswers ==
    [status : RedirectStatuses, location : {<<l>> : l \in ChainLocations},
     contentType : {<<>>}, cacheControl : {<<>>}, body : {"moved"}]

LastAnswers ==
    [status : {200, 404, 500}, location : {<<>>},
     contentType : {<<>>, <<"application/json">>}, cacheControl : {<<>>},
     body : {"payload"}]
    \cup [status : {200}, location : {<<>>},
          contentType : {<<"text/html">>}, cacheControl : {<<"max-age=3600">>},
          body : {"payload"}]
    \cup [status : RedirectStatuses, location : {<<>>},
          contentType : {<<>>}, cacheControl : {<<>>}, body : {"moved"}]
    \cup [status : {302}, location : {<<BadLocation>>},
          contentType : {<<>>}, cacheControl : {<<>>}, body : {"moved"}]

\* fetch rejects: Response.error() has status 0
NetworkError ==
    [status |-> 0, location |-> <<>>, contentType |-> <<>>, cacheControl |-> <<>>,
     body |-> ""]

\* line 63 rejects: the exception leaves fetchFollow and is caught at line 157
FetchRejects ==
    /\ pc = "fetching"
    /\ sent = upstream + 1
    /\ prev' = [request |-> cur, answer |-> NetworkError]
    /\ Return(UpstreamFetchFailed("fetch failed"))
    /\ UNCHANGED <<policy, suspended, env, req, upstream, i, cur, first, sent, seen>>

\* a redirect without Location taken for a failure
FetchFinal_RedirectFails ==
    /\ pc = "fetching"
    /\ sent = upstream + 1
    /\ \E res \in LastAnswers :
        /\ ~IsRedirect(res)
        /\ prev' = [request |-> cur, answer |-> res]
        /\ Return(IF res.status \in RedirectStatuses
                  THEN UpstreamFetchFailed("Redirect without Location")
                  ELSE Relay(res))
    /\ UNCHANGED <<policy, suspended, env, req, upstream, i, cur, first, sent, seen>>

\* lines 64 and 67: the answer is final and is relayed
FetchFinal ==
    /\ pc = "fetching"
    /\ sent = upstream + 1
    /\ \E res \in LastAnswers :
        /\ ~IsRedirect(res)
        /\ prev' = [request |-> cur, answer |-> res]
        /\ Return(Relay(res))
    /\ UNCHANGED <<policy, suspended, env, req, upstream, i, cur, first, sent, seen>>

\* line 69 throws: the Location does not resolve
FetchBadLocation ==
    /\ pc = "fetching"
    /\ sent = upstream + 1
    /\ \E res \in LastAnswers :
        /\ IsRedirect(res)
        /\ ~IsURL(ResolveURL(res.location[1], cur.url))
        /\ prev' = [request |-> cur, answer |-> res]
        /\ Return(UpstreamFetchFailed("Invalid URL"))
    /\ UNCHANGED <<policy, suspended, env, req, upstream, i, cur, first, sent, seen>>

\* lines 66-76 and 62-63: the redirect is followed and the next fetch issued
FetchRedirect ==
    /\ pc = "fetching"
    /\ sent <= upstream
    /\ \E res \in ChainAnswers :
        /\ IsRedirect(res)
        /\ IsURL(ResolveURL(res.location[1], cur.url))
        /\ i + 1 < MaxHops
        /\ prev' = [request |-> cur, answer |-> res]
        /\ cur' = [NextInit(cur, res.status) EXCEPT
                      !.url = ResolveURL(res.location[1], cur.url)]
        /\ seen' = seen \cup {res.status}
    /\ i' = i + 1
    /\ sent' = sent + 1
    /\ UNCHANGED <<policy, suspended, env, req, upstream, pc, first, response>>

\* lines 66-78 and 157: the loop ends, `Too many redirects` is thrown and caught
TooManyRedirects ==
    /\ pc = "fetching"
    /\ sent <= upstream
    /\ \E res \in ChainAnswers :
        /\ IsRedirect(res)
        /\ IsURL(ResolveURL(res.location[1], cur.url))
        /\ ~(i + 1 < MaxHops)
        /\ prev' = [request |-> cur, answer |-> res]
        /\ cur' = [NextInit(cur, res.status) EXCEPT
                      !.url = ResolveURL(res.location[1], cur.url)]
        /\ seen' = seen \cup {res.status}
    /\ i' = i + 1
    /\ Return(UpstreamFetchFailed("Too many redirects"))
    /\ UNCHANGED <<policy, suspended, env, req, upstream, first, sent>>

----------------------------------------------------------------------------
(* The inputs *)

MaxChain == 6

GoodKey  == <<57, 56, 52>>
GoodPass == <<54, 48, 100, 74>>
EuroKey  == <<8364, 49>>

PlainEnv == ("F1_API_KEY" :> GoodKey) @@ ("F1_API_PASSWORD" :> GoodPass)

Envs ==
    { PlainEnv,
      ("F1_API_KEY" :> EuroKey) @@ ("F1_API_PASSWORD" :> GoodPass),
      ("F1_API_KEY" :> GoodKey) @@ ("F1_API_PASSWORD" :> GoodPass)
          @@ ("F1_CART_BASE" :>
                [host |-> F1Host, path |-> <<"api", "cart">>, query |-> <<>>]),
      ("F1_API_PASSWORD" :> GoodPass),
      ("F1_API_KEY" :> <<>>) @@ ("F1_API_PASSWORD" :> GoodPass),
      ("F1_API_KEY" :> GoodKey),
      ("F1_API_KEY" :> GoodKey) @@ ("F1_API_PASSWORD" :> <<>>),
      PlainEnv @@ ("ALLOWED_ORIGINS" :>
                     <<"https://app.example ", " https://shop.example">>),
      <<>> }

Methods == {"GET", "HEAD", "POST", "PUT", "PATCH", "patch", "DELETE", "OPTIONS"}

Mount == <<"api", "floristone">>

ApiValues ==
    { <<>>, Scart, Stree, Sflowershop,
      <<"C","A","R","T">>, <<"T","r","e","e">>,
      <<"f","l","o","w","e","r">>, <<"c","a","r","t","s">>,
      Sconstructor, <<"C","o","n","s","t","r","u","c","t","o","r">>, Sproto }

Queries == { <<>> } \cup { << <<"api", v>> >> : v \in ApiValues }

RECURSIVE SeqsUpTo(_, _)
SeqsUpTo(S, n) ==
    IF n = 0 THEN { <<>> }
    ELSE LET shorter == SeqsUpTo(S, n - 1)
         IN  shorter \cup { Append(q, x) : q \in shorter, x \in S }

MaxSuffix == 3
Suffixes == SeqsUpTo({"", "a"}, MaxSuffix) \cup { <<"", "", "evil.example", "a">> }

AuthValues == { <<"B","e","a","r","e","r"," ","x">>, Basic \o <<"e","g","=","=">> }

HeaderSets ==
    { Merge(Merge(a, b), c) :
        a \in { <<>> } \cup { "authorization" :> v : v \in AuthValues },
        b \in { <<>>, "accept" :> "", "accept" :> "text/xml" },
        c \in { <<>>, "content-type" :> "", "content-type" :> "text/plain" } }

DefaultRequest ==
    [method |-> "GET", pathname |-> Mount \o <<"getproducts">>,
     query |-> << <<"api", Scart>> >>, headers |-> <<>>, body |-> ""]

\* requests that vary the selector
SelectorRequests ==
    { [DefaultRequest EXCEPT !.method = m, !.query = q] :
        m \in {"GET", "POST", "OPTIONS"}, q \in Queries }

\* requests that vary the path
PathRequests ==
    { [DefaultRequest EXCEPT !.method = m, !.query = q, !.pathname = Mount \o s] :
        m \in {"GET", "OPTIONS"},
        q \in { <<>>, << <<"api", Scart>> >>, << <<"api", Sconstructor>> >> },
        s \in Suffixes }

\* requests that vary the headers
HeaderRequests ==
    { [DefaultRequest EXCEPT !.method = m, !.headers = h, !.body = "bytes"] :
        m \in {"GET", "POST", "OPTIONS"}, h \in HeaderSets }

\* requests that vary the method and the body
MethodRequests ==
    { [DefaultRequest EXCEPT !.method = m, !.headers = h, !.body = "bytes"] :
        m \in Methods,
        h \in { <<>>, ("authorization" :> <<"x">>) @@ ("content-type" :> "text/plain") } }

MaxQuery == 3

QueryPairs ==
    { <<"api", Scart>>, <<"api", Stree>>,
      <<"a", <<"1">> >>, <<"a", <<"2">> >>, <<"b", <<"1">> >> }

\* requests that vary the query
QueryRequests ==
    { [DefaultRequest EXCEPT !.query = q] : q \in SeqsUpTo(QueryPairs, MaxQuery) }

Origins ==
    { "", "http://localhost:3000", "https://www.figma.com",
      "https://shop.example", "https://evil.example" }

\* requests that vary the origin
OriginRequests ==
    { [DefaultRequest EXCEPT !.method = m, !.query = q, !.headers = "origin" :> o] :
        m \in {"GET", "OPTIONS"},
        q \in { << <<"api", Scart>> >>, << <<"api", <<"c","a","r","t","s">> >> >> },
        o \in Origins }

Requests ==
    SelectorRequests \cup PathRequests \cup HeaderRequests \cup MethodRequests
    \cup OriginRequests \cup QueryRequests

Init ==
    /\ env \in Envs
    /\ req \in Requests
    /\ upstream \in 0..MaxChain
    /\ upstream > 0 => req \in MethodRequests /\ env = PlainEnv
    /\ pc = "start"
    /\ i = 0
    /\ cur = NoRequest
    /\ first = NoRequest
    /\ prev = [request |-> NoRequest, answer |-> NoAnswer]
    /\ sent = 0
    /\ seen = {}
    /\ response = NoResponse
    /\ suspended = NoFrame
    /\ policy = "any"

Next ==
    \/ Preflight
    \/ InvalidSelector
    \/ InvalidTarget
    \/ NoCredentials
    \/ Forward
    \/ FetchRejects
    \/ FetchFinal
    \/ FetchBadLocation
    \/ FetchRedirect
    \/ TooManyRedirects

Spec == Init /\ [][Next]_vars

----------------------------------------------------------------------------
(* Two invocations of handler on one isolate.  The runtime runs one          *)
(* invocation at a time and may pass to the other one wherever the running   *)
(* one awaits (line 63) or has ended.  process.env and the values loaded     *)
(* from it at lines 18-39 are the isolate's; everything from `req` to        *)
(* `response` is local to an invocation.                                     *)

\* the locals of an invocation that has not begun
Frame(r, k) ==
    [req |-> r, upstream |-> k, pc |-> "start", i |-> 0, cur |-> NoRequest,
     first |-> NoRequest, prev |-> [request |-> NoRequest, answer |-> NoAnswer],
     sent |-> 0, seen |-> {}, response |-> NoResponse]

\* the locals of the running invocation
Registers ==
    [req |-> req, upstream |-> upstream, pc |-> pc, i |-> i, cur |-> cur,
     first |-> first, prev |-> prev, sent |-> sent, seen |-> seen,
     response |-> response]

\* an upstream that answers a request by what the request is
Policies ==
    {"ok", "notfound", "down", "seeother", "moved", "loop", "nolocation",
     "badlocation"}

Answer(p, request) ==
    LET redirect(status, location) ==
            [status |-> status, location |-> <<location>>, contentType |-> <<>>,
             cacheControl |-> <<>>, body |-> "moved"]
        final(status, contentType) ==
            [status |-> status, location |-> <<>>, contentType |-> contentType,
             cacheControl |-> <<>>, body |-> "payload"]
    IN  CASE p = "ok"          -> final(200, <<"application/json">>)
          [] p = "notfound"    -> final(404, <<>>)
          [] p = "down"        -> NetworkError
          [] p = "seeother"    -> IF request.method # "GET"
                                  THEN redirect(303, <<"next">>)
                                  ELSE final(200, <<"application/json">>)
          [] p = "moved"       -> IF request.url.host = F1Host
                                  THEN redirect(302, <<"", "", "cdn.floristone.example", "x">>)
                                  ELSE final(200, <<>>)
          [] p = "loop"        -> redirect(307, <<"next">>)
          [] p = "nolocation"  -> [redirect(301, <<>>) EXCEPT !.location = <<>>]
          [] p = "badlocation" -> redirect(302, BadLocation)

\* lines 81-146 and 60-63 on the locals f: handler up to its first await
Begin(f) ==
    LET r == f.req
        return(res) == [f EXCEPT !.pc = "returned", !.response = res]
    IN  IF r.method = "OPTIONS"
        THEN return([status |-> 204, headers |-> corsHeaders(r.headers),
                     body |-> NullBody])
        ELSE IF UpstreamBase(r).type = "undefined"
        THEN return([status |-> 400, headers |-> JsonHeaders(corsHeaders(r.headers)),
                     body |-> [error |-> "Invalid API selector"]])
        ELSE IF ~IsURL(Target(r))
        THEN [f EXCEPT !.pc = "threw",
                       !.response = [exception |-> "TypeError",
                                     message |-> "Invalid URL"]]
        ELSE IF MissingCredentials
        THEN return([status |-> 500, headers |-> JsonHeaders(corsHeaders(r.headers)),
                     body |-> [error |-> "Server missing F1 credentials"]])
        ELSE [f EXCEPT !.pc = "fetching", !.i = 0, !.sent = 1,
                       !.cur = [url |-> Target(r)] @@ RequestInit(r),
                       !.first = [url |-> Target(r)] @@ RequestInit(r)]

\* lines 63-78 and 148-161 on the locals f: handler from the answer res of its
\* fetch to the next await or to its end
Resume(f, res) ==
    LET answered == [f EXCEPT !.prev = [request |-> f.cur, answer |-> res]]
        return(r) == [answered EXCEPT !.pc = "returned", !.response = r]
        nextUrl == ResolveURL(res.location[1], f.cur.url)
        followed == [answered EXCEPT
                        !.cur = [NextInit(f.cur, res.status) EXCEPT !.url = nextUrl],
                        !.seen = @ \cup {res.status},
                        !.i = @ + 1]
    IN  IF res = NetworkError
        THEN return(UpstreamFetchFailedTo(f.req, "fetch failed"))
        ELSE IF ~IsRedirect(res)
        THEN return(RelayTo(f.req, res))
        ELSE IF ~IsURL(nextUrl)
        THEN return(UpstreamFetchFailedTo(f.req, "Invalid URL"))
        ELSE IF f.i + 1 < MaxHops
        THEN [followed EXCEPT !.sent = @ + 1]
        ELSE [followed EXCEPT !.pc = "returned",
                 !.response = UpstreamFetchFailedTo(f.req, "Too many redirects")]

\* handler run alone from the locals f against the upstream p: the locals at
\* the start, at every await and at the end
RECURSIVE Handled(_, _)
Handled(f, p) ==
    LET then == CASE f.pc = "start"    -> {Begin(f)}
                  [] f.pc = "fetching" -> {Resume(f, Answer(p, f.cur))}
                  [] OTHER             -> {}
    IN  IF then = {} THEN <<f>>
        ELSE CHOOSE run \in { <<f>> \o Handled(g, p) : g \in then } : TRUE

\* the number of redirects the upstream p has the request r follow
Redirects(r, p) ==
    LET run == Handled(Frame(r, 0), p) IN run[Len(run)].i

\* the fetch of line 63 is answered as the upstream's policy says
Scripted == pc = "fetching" => prev'.answer = Answer(policy, cur)

\* the invocation that waits is given the isolate, the running one waits
Switch_SharedCurrent ==
    /\ suspended # NoFrame
    /\ suspended' = Registers
    /\ req' = suspended.req
    /\ upstream' = suspended.upstream
    /\ pc' = suspended.pc
    /\ i' = suspended.i
    /\ first' = suspended.first
    /\ prev' = suspended.prev
    /\ sent' = suspended.sent
    /\ seen' = suspended.seen
    /\ response' = suspended.response
    /\ UNCHANGED <<env, policy, cur>>

\* line 63 (await) and the end of handler: the invocation that waits is
\* given the isolate, the running one waits with its locals
Switch ==
    /\ suspended # NoFrame
    /\ suspended' = Registers
    /\ req' = suspended.req
    /\ upstream' = suspended.upstream
    /\ pc' = suspended.pc
    /\ i' = suspended.i
    /\ cur' = suspended.cur
    /\ first' = suspended.first
    /\ prev' = suspended.prev
    /\ sent' = suspended.sent
    /\ seen' = suspended.seen
    /\ response' = suspended.response
    /\ UNCHANGED <<env, policy>>

ConcurrentEnvs == { PlainEnv, ("F1_API_PASSWORD" :> GoodPass) }

ConcurrentRequests ==
    { DefaultRequest,
      [DefaultRequest EXCEPT !.headers = "origin" :> "https://www.goldenpaul.ca"],
      [DefaultRequest EXCEPT !.method = "POST", !.body = "bytes",
                             !.headers = "content-type" :> "text/plain"],
      [DefaultRequest EXCEPT !.method = "DELETE", !.query = << <<"api", Stree>> >>,
                             !.pathname = Mount \o <<"orders", "7">>],
      [DefaultRequest EXCEPT !.method = "OPTIONS"],
      [DefaultRequest EXCEPT !.query = << <<"api", Sconstructor>> >>] }

InitConcurrent ==
    /\ env \in ConcurrentEnvs
    /\ policy \in Policies
    /\ req \in ConcurrentRequests
    /\ upstream = Redirects(req, policy)
    /\ pc = "start"
    /\ i = 0
    /\ cur = NoRequest
    /\ first = NoRequest
    /\ prev = [request |-> NoRequest, answer |-> NoAnswer]
    /\ sent = 0
    /\ seen = {}
    /\ response = NoResponse
    /\ \E r \in ConcurrentRequests :
          suspended = Frame(r, Redirects(r, policy))

NextConcurrent ==
    \/ Next /\ Scripted
    \/ Switch

SpecConcurrent == InitConcurrent /\ [][NextConcurrent]_vars

----------------------------------------------------------------------------
(* Properties *)

Selectors == {Sflowershop, Scart, Stree}
Forwarded == sent >= 1

IsPrefix(p, q) == Len(p) <= Len(q) /\ SubSeq(q, 1, Len(p)) = p

\* C1: a non-OPTIONS request whose `api` value, lowercased, is not exactly
\* flowershop, cart or tree is answered 400 {"error":"Invalid API selector"}
\* with no upstream request, whatever the credentials.
C1_UnknownSelectorIs400 ==
    LET got == SearchGet(req.query, "api")
    IN  (/\ pc # "start"
         /\ req.method # "OPTIONS"
         /\ got # <<>>
         /\ got[1] # <<>>
         /\ toLowerCase(got[1]) \notin Selectors)
        => (/\ pc = "returned"
            /\ response.status = 400
            /\ response.body = [error |-> "Invalid API selector"]
            /\ sent = 0)

B64Index(c) == CHOOSE n \in 0..63 : B64Chars[n + 1] = c

\* the bytes a base64 text stands for
RECURSIVE Base64Decode(_)
Base64Decode(t) ==
    IF Len(t) < 4 THEN <<>>
    ELSE LET a == B64Index(t[1])
             b == B64Index(t[2])
         IN  IF t[3] = "=" THEN << (a * 4) + (b \div 16) >>
             ELSE IF t[4] = "=" THEN
                 << (a * 4) + (b \div 16),
                    ((b % 16) * 16) + (B64Index(t[3]) \div 4) >>
             ELSE << (a * 4) + (b \div 16),
                     ((b % 16) * 16) + (B64Index(t[3]) \div 4),
                     ((B64Index(t[3]) % 4) * 64) + B64Index(t[4]) >>
                  \o Base64Decode(SubSeq(t, 5, Len(t)))

\* the bytes of key:password, one byte per character when every character
\* fits a byte and UTF-8 otherwise
CredentialBytes ==
    LET s == Key \o <<58>> \o Pass
    IN  IF \A n \in 1..Len(s) : s[n] < 256 THEN s ELSE Utf8(s)

\* the inbound request with another Authorization header (or none)
WithAuthorization(r, a) ==
    [r EXCEPT !.headers =
        Merge([n \in DOMAIN r.headers \ {"authorization"} |-> r.headers[n]], a)]

OtherAuthorizations ==
    { <<>> } \cup { "authorization" :> v : v \in AuthValues \cup { <<"x">> } }

\* C2: the first upstream request carries Authorization: Basic
\* base64(key:password), Accept (the inbound value or application/json) and
\* Content-Type only if the inbound request has one, and nothing else; the
\* upstream request is the same whatever Authorization the inbound request has.
C2_CredentialInjection ==
    Forwarded =>
        /\ DOMAIN first.headers =
               {"Authorization", "Accept"}
               \cup (IF Has(req.headers, "content-type") THEN {"Content-Type"} ELSE {})
        /\ SubSeq(first.headers["Authorization"], 1, 6) = Basic
        /\ Base64Decode(SubSeq(first.headers["Authorization"], 7,
                               Len(first.headers["Authorization"])))
               = CredentialBytes
        /\ first.headers["Accept"] =
               (IF Has(req.headers, "accept") THEN req.headers["accept"]
                ELSE "application/json")
        /\ Has(req.headers, "content-type")
               => first.headers["Content-Type"] = req.headers["content-type"]
        /\ \A a \in OtherAuthorizations :
               first = [url |-> Target(WithAuthorization(req, a))]
                       @@ RequestInit(WithAuthorization(req, a))

C2_Witness ==
    /\ Forwarded
    /\ "authorization" \in DOMAIN req.headers
    /\ Has(req.headers, "content-type")
    /\ ~Has(req.headers, "accept")
    /\ req.method = "POST"

\* C3: the first upstream request goes to the selected base followed by the
\* path suffix: the base's host, and a path that is the base's path followed
\* by the segments of the suffix in their order.
C3_PathUnderBase ==
    (Forwarded /\ IsPrefix(Mount, req.pathname)) =>
        LET base   == UpstreamBase(req).url
            suffix == SubSeq(req.pathname, Len(Mount) + 1, Len(req.pathname))
        IN  /\ first.url.host = base.host
            /\ IsPrefix(SubSeq(base.path, 1, Len(base.path) - 1), first.url.path)
            /\ suffix # <<>> =>
                   first.url.path = SubSeq(base.path, 1, Len(base.path) - 1) \o suffix

CorsNames ==
    {"Access-Control-Allow-Origin", "Access-Control-Allow-Credentials",
     "Access-Control-Allow-Methods", "Access-Control-Allow-Headers", "Vary"}

\* C4: an OPTIONS request is answered 204 with no body and only the CORS
\* headers, and no upstream request is issued, whatever its path, its query
\* and the credentials.
C4_Preflight ==
    req.method = "OPTIONS" =>
        /\ sent = 0
        /\ pc \in {"start", "returned"}
        /\ pc = "returned" =>
            /\ response.status = 204
            /\ response.body = NullBody
            /\ DOMAIN response.headers = CorsNames

C4_Witness ==
    /\ req.method = "OPTIONS"
    /\ pc = "returned"
    /\ response.status = 204
    /\ UpstreamBase(req).type = "undefined"
    /\ MissingCredentials

C4_WitnessPath ==
    /\ req.method = "OPTIONS"
    /\ pc = "returned"
    /\ ~IsURL(Target(req))

\* C5: a non-OPTIONS request with a valid selector is answered 500
\* {"error":"Server missing F1 credentials"} with no upstream request when the
\* key or the password is missing or empty.
C5_MissingCredentialsIs500 ==
    (/\ pc # "start"
     /\ req.method # "OPTIONS"
     /\ Api(req) \in Selectors
     /\ MissingCredentials)
    => (/\ pc = "returned"
        /\ response.status = 500
        /\ response.body = [error |-> "Server missing F1 credentials"]
        /\ sent = 0)

TooManyBody == [error |-> "Upstream fetch failed", detail |-> "Too many redirects"]

\* C6: against an upstream that answers 6 or more consecutive requests with a
\* 302 carrying a Location, the proxy returns 502 "Upstream fetch failed" with
\* the detail "Too many redirects", having issued at most MaxHops requests,
\* and issues no request after it has returned.
C6_TooManyRedirects ==
    /\ [](Forwarded /\ upstream >= 6 /\ seen \subseteq {302} =>
            /\ sent <= 5
            /\ pc \in {"fetching", "returned"}
            /\ pc = "returned" =>
                /\ response.status = 502
                /\ response.body = TooManyBody)
    /\ [][pc = "returned" => pc' = "returned" /\ sent' = sent]_vars

C6_Witness ==
    /\ pc = "returned"
    /\ upstream >= 6
    /\ seen = {302}
    /\ response.status = 502
    /\ response.body = TooManyBody

\* C7: a chain of k redirects, 0 <= k <= 5, followed by a non-redirect answer
\* is resolved; "Too many redirects" is produced only after more than 5
\* consecutive redirect answers.
C7_ChainWithinCapResolved ==
    (pc = "returned" /\ Forwarded /\ upstream <= 5) =>
        /\ response.body # TooManyBody
        /\ (prev.answer.status \notin RedirectStatuses /\ prev.answer.status # 0)
               => response.status = prev.answer.status

\* the URL a Location of ChainLocations names, seen from the URL `from`
Followed(location, from) ==
    IF location[1] # ""
    THEN [host |-> from.host,
          path |-> SubSeq(from.path, 1, Len(from.path) - 1) \o location,
          query |-> <<>>]
    ELSE [host |-> location[3],
          path |-> SubSeq(location, 4, Len(location)),
          query |-> <<>>]

NextIssued == pc = "fetching" /\ sent >= 2

\* C8: after a 303 with a Location the next upstream request is a GET without
\* body, whatever the method was, to the Location resolved against the URL of
\* the request just answered.
C8_SeeOtherBecomesGet ==
    (NextIssued /\ prev.answer.status = 303) =>
        /\ cur.method = "GET"
        /\ cur.body = Undefined
        /\ cur.url = Followed(prev.answer.location[1], prev.request.url)

C8_Witness ==
    /\ NextIssued
    /\ sent = 3
    /\ prev.answer.status = 303
    /\ prev.request.method = "POST"
    /\ prev.request.body = Blob("bytes")
    /\ prev.request.url.host # F1Host
    /\ prev.answer.location[1] = <<"next">>

\* C9: after a 307 or 308 with a Location the next upstream request has the
\* method and the body of the request just answered; only the URL changes.
C9_TemporaryRedirectKeepsRequest ==
    (NextIssued /\ prev.answer.status \in {307, 308}) =>
        /\ cur.method = prev.request.method
        /\ cur.body = prev.request.body
        /\ cur = [prev.request EXCEPT
                     !.url = Followed(prev.answer.location[1], prev.request.url)]
        /\ cur.method \notin {"GET", "HEAD"} => cur.body = Blob(req.body)

C9_Witness ==
    /\ NextIssued
    /\ prev.answer.status = 307
    /\ cur.method = "POST"
    /\ cur.body = Blob("bytes")
    /\ cur.url # prev.request.url

\* C10: after a 301 or 302 with a Location the next upstream request is a GET
\* without body if the current method is neither GET nor HEAD, and keeps the
\* current method (HEAD stays HEAD), without body, if it is GET or HEAD.
C10_MovedDowngradesUnsafe ==
    (NextIssued /\ prev.answer.status \in {301, 302}) =>
        /\ cur.body = Undefined
        /\ cur.method =
             (IF prev.request.method \in {"GET", "HEAD"}
              THEN prev.request.method ELSE "GET")

C10_Witness ==
    /\ NextIssued
    /\ prev.answer.status = 301
    /\ prev.request.method = "HEAD"
    /\ cur.method = "HEAD"

C10_WitnessCurrent ==
    /\ NextIssued
    /\ sent >= 3
    /\ prev.answer.status = 302
    /\ req.method = "DELETE"
    /\ prev.request.method = "DELETE"
    /\ cur.method = "GET"

\* C11: no upstream request with method GET or HEAD carries a body, at the
\* first hop and at every later hop, even when the inbound request has one;
\* a body is sent only with another method.
C11_NoBodyWithGetOrHead ==
    Forwarded =>
        /\ first.method \in {"GET", "HEAD"} <=> first.body = Undefined
        /\ cur.method \in {"GET", "HEAD"} <=> cur.body = Undefined
        /\ prev.request # NoRequest =>
               (prev.request.method \in {"GET", "HEAD"} <=> prev.request.body = Undefined)

C11_Witness ==
    /\ pc = "fetching"
    /\ sent >= 2
    /\ req.body = "bytes"
    /\ req.method = "HEAD"
    /\ cur.method = "HEAD"
    /\ cur.body = Undefined

\* the origin list the configuration states, and the origin it makes the
\* response allow
ConfiguredOrigins ==
    IF "ALLOWED_ORIGINS" \in DOMAIN env
    THEN <<"https://app.example", "https://shop.example">>
    ELSE <<"http://localhost:3000", "https://www.figma.com">>

OriginListed ==
    /\ "origin" \in DOMAIN req.headers
    /\ \E n \in 1..Len(ConfiguredOrigins) : ConfiguredOrigins[n] = req.headers["origin"]

\* C12: every response the handler returns (204, 400, 500, 502, relayed)
\* carries the CORS headers computed from the request origin: the origin
\* itself when it is in the allowlist, else the allowlist's first entry;
\* Allow-Credentials false, fixed methods and headers, Vary: Origin.
C12_CorsOnEveryResponse ==
    pc = "returned" =>
        /\ CorsNames \subseteq DOMAIN response.headers
        /\ response.headers["Access-Control-Allow-Origin"] =
               (IF OriginListed THEN req.headers["origin"] ELSE ConfiguredOrigins[1])
        /\ response.headers["Access-Control-Allow-Credentials"] = "false"
        /\ response.headers["Access-Control-Allow-Methods"] =
               "GET,POST,PATCH,PUT,DELETE,OPTIONS"
        /\ response.headers["Access-Control-Allow-Headers"] =
               "Content-Type,Authorization,X-Api,Accept"
        /\ response.headers["Vary"] = "Origin"

C12_Witness ==
    /\ pc = "returned"
    /\ response.status = 502
    /\ OriginListed
    /\ req.headers["origin"] = "https://shop.example"
    /\ response.headers["Access-Control-Allow-Origin"] = "https://shop.example"

C12_WitnessUnlisted ==
    /\ pc = "returned"
    /\ response.status \in {200, 400}
    /\ "origin" \in DOMAIN req.headers
    /\ req.headers["origin"] = "https://evil.example"
    /\ response.headers["Access-Control-Allow-Origin"] = "http://localhost:3000"

\* C13: every failure produces an explicit response: a transport failure at
\* any hop gives 502 {"error":"Upstream fetch failed","detail":...} and no
\* further upstream request, and no step of the handler lets an exception
\* escape.
C13_NoUnhandledFault ==
    /\ pc # "threw"
    /\ (pc = "returned" /\ prev.answer = NetworkError) =>
           /\ response.status = 502
           /\ response.body.error = "Upstream fetch failed"
           /\ "detail" \in DOMAIN response.body
           /\ sent = upstream + 1

\* the part of C13 that holds: failures inside the try block are answered 502
C13_FailuresInsideTryAre502 ==
    (pc = "returned" /\ Forwarded
     /\ (prev.answer = NetworkError
         \/ (prev.answer.location # <<>> /\ prev.answer.location[1] = BadLocation)))
    => /\ response.status = 502
       /\ response.body.error = "Upstream fetch failed"

\* the loop ended with an upstream response (not with an exception)
FinalAnswer ==
    /\ pc = "returned"
    /\ Forwarded
    /\ prev.answer # NetworkError
    /\ ~(prev.answer.status \in RedirectStatuses /\ prev.answer.location # <<>>)

\* C14: the client response has the final upstream response's status (4xx and
\* 5xx included), its Content-Type when it has one and none otherwise, and
\* Cache-Control: no-store whatever the upstream's caching directive.
C14_RelayVerbatim ==
    FinalAnswer =>
        /\ response.status = prev.answer.status
        /\ IF prev.answer.contentType # <<>>
           THEN /\ "Content-Type" \in DOMAIN response.headers
                /\ response.headers["Content-Type"] = prev.answer.contentType[1]
           ELSE "Content-Type" \notin DOMAIN response.headers
        /\ response.headers["Cache-Control"] = "no-store"
        /\ response.body = [stream |-> prev.answer.body]

C14_Witness ==
    /\ FinalAnswer
    /\ prev.answer.status = 200
    /\ prev.answer.cacheControl = <<"max-age=3600">>
    /\ response.headers["Cache-Control"] = "no-store"
    /\ response.headers["Content-Type"] = "text/html"

C14_WitnessServerError ==
    /\ FinalAnswer
    /\ sent >= 2
    /\ prev.answer.status = 500
    /\ response.status = 500
    /\ "Content-Type" \notin DOMAIN response.headers

QueryKeys(q) == { q[n][1] : n \in 1..Len(q) }

LastValue(q, k) ==
    q[CHOOSE n \in 1..Len(q) :
        q[n][1] = k /\ \A m \in 1..Len(q) : q[m][1] = k => m <= n][2]

\* C15: the query of the first upstream request never has the key `api`; it
\* has every other inbound key exactly once, with the value of the key's last
\* inbound occurrence, and no key the inbound query does not have.
C15_QueryForwarded ==
    Forwarded =>
        LET q == first.url.query
        IN  /\ "api" \notin QueryKeys(q)
            /\ QueryKeys(q) = QueryKeys(req.query) \ {"api"}
            /\ \A k \in QueryKeys(q) :
                /\ Cardinality({n \in 1..Len(q) : q[n][1] = k}) = 1
                /\ LastValue(q, k) = LastValue(req.query, k)

C15_Witness ==
    /\ Forwarded
    /\ req.query = << <<"a", <<"1">> >>, <<"api", Stree>>, <<"a", <<"2">> >> >>
    /\ first.url.query = << <<"a", <<"2">> >> >>

\* the `api` values of the inbound query
ApiSent == { req.query[n][2] : n \in {m \in 1..Len(req.query) : req.query[m][1] = "api"} }

\* the selector a request names: none or an empty one is flowershop, and the
\* letter case does not matter
NamedSelector ==
    IF ApiSent \subseteq { <<>> } THEN "flowershop"
    ELSE IF ApiSent \subseteq { Scart, <<"C","A","R","T">> } THEN "cart"
    ELSE IF ApiSent \subseteq { Stree, <<"T","r","e","e">> } THEN "tree"
    ELSE IF ApiSent = { Sflowershop } THEN "flowershop"
    ELSE "other"

\* the configured base of a selector, as a path
ConfiguredBasePath(name) ==
    IF name = "cart" /\ "F1_CART_BASE" \in DOMAIN env
    THEN <<"api", "cart">>
    ELSE <<"api", "rest", name>>

\* C16: the upstream is chosen by `api` without regard to letter case, with
\* flowershop as the default for a missing or empty value; the request goes
\* to the base of the selector named and to no other.
C16_SelectorChoosesBase ==
    (/\ pc # "start"
     /\ req.method # "OPTIONS"
     /\ ~MissingCredentials
     /\ NamedSelector # "other"
     /\ req.pathname = Mount \o <<"getproducts">>)
    => /\ Forwarded
       /\ first.url.host = F1Host
       /\ first.url.path = ConfiguredBasePath(NamedSelector) \o <<"getproducts">>

C16_Witness ==
    /\ Forwarded
    /\ ApiSent = { <<"C","A","R","T">> }
    /\ "F1_CART_BASE" \in DOMAIN env
    /\ first.url.path = <<"api", "cart", "getproducts">>

C16_WitnessDefault ==
    /\ Forwarded
    /\ req.query = << <<"api", <<>> >> >>
    /\ first.url.path = <<"api", "rest", "flowershop", "getproducts">>

\* C18: a redirect status without a Location header ends the loop: no further
\* upstream request is issued and the client receives that 3xx status, not 502.
C18_RedirectWithoutLocationIsFinal ==
    (/\ prev.answer # NoAnswer
     /\ prev.answer.status \in RedirectStatuses
     /\ prev.answer.location = <<>>)
    => /\ pc = "returned"
       /\ response.status = prev.answer.status
       /\ response.body = [stream |-> prev.answer.body]
       /\ cur = prev.request
       /\ ~ENABLED Next

C18_Witness ==
    /\ pc = "returned"
    /\ sent = 3
    /\ prev.answer.status = 307
    /\ prev.answer.location = <<>>
    /\ response.status = 307

\* C20: following a redirect never changes the request headers: every upstream
\* request of a chain, one to another host and one downgraded to GET without
\* body included, carries the Authorization, Accept and Content-Type headers of
\* the first upstream request.
C20_HeadersKeptAcrossRedirects ==
    /\ Forwarded => cur.headers = first.headers
    /\ prev.request # NoRequest => prev.request.headers = first.headers
    /\ Forwarded => first.headers = OutHeaders(req)

C20_Witness ==
    /\ NextIssued
    /\ req.method = "POST"
    /\ first.method = "POST"
    /\ cur.method = "GET"
    /\ cur.body = Undefined
    /\ cur.url.host # F1Host
    /\ "Content-Type" \in DOMAIN cur.headers
    /\ cur.headers["Authorization"] = first.headers["Authorization"]

\* C19: every handling is under way until it ends, and it ends only by
\* returning exactly one response, after at most 5 upstream requests; the hop
\* counter grows by exactly one per upstream request answered by a followed
\* redirect, never decreases and never exceeds 5.
C19_ReturnsOnceWithinFiveHops ==
    /\ [](/\ pc \in {"start", "fetching", "returned"}
          /\ sent <= 5
          /\ i <= 5
          /\ pc = "fetching" => i = sent - 1)
    /\ [][/\ i' >= i
          /\ sent' >= sent
          /\ sent' = sent + 1 => i' = sent
          /\ pc = "returned" => UNCHANGED <<pc, response, sent, i>>]_vars

\* the parts of C19 about the hop counter and the number of upstream requests
C19_HopCounterBounded ==
    /\ sent <= 5
    /\ i <= 5
    /\ pc = "fetching" => i = sent - 1
    /\ pc = "returned" /\ Forwarded => i \in {sent - 1, sent}

\* the run of handler alone on the request of the locals f
Alone(f) == Handled(Frame(f.req, f.upstream), policy)

\* the locals f are those of the run alone at the same place: the same
\* upstream requests issued so far, the same request in flight, the same
\* response
AsAlone(f) ==
    LET run == Alone(f)
        at  == CASE f.pc = "start"    -> 1
                 [] f.pc = "fetching" -> f.sent + 1
                 [] OTHER             -> Len(run)
    IN  at <= Len(run) /\ f = run[at]

ContentTypeOf(res) ==
    IF "Content-Type" \in DOMAIN res.headers THEN <<res.headers["Content-Type"]>>
    ELSE <<>>

SameGetSameResponse ==
    (/\ pc = "returned"
     /\ suspended.pc = "returned"
     /\ req.method = "GET"
     /\ suspended.req = req)
    => /\ response.status = suspended.response.status
       /\ ContentTypeOf(response) = ContentTypeOf(suspended.response)
       /\ response.body = suspended.response.body

\* every step of the handler of Spec is the step Begin or Resume computes
StepsAsComputed ==
    [][/\ pc = "start" => Registers' = Begin(Registers)
       /\ pc = "fetching" => Registers' = Resume(Registers, prev'.answer)]_vars

\* C17: handling a request never changes the upstream configuration or the
\* origin allowlist, and under every interleaving of two invocations at their
\* awaits each one issues the upstream requests and returns the response of
\* its run alone; the same GET handled twice against an upstream that answers
\* identically gives the same status, content type and body.
C17_InvocationsIndependent ==
    /\ [](suspended # NoFrame =>
            /\ AsAlone(Registers)
            /\ AsAlone(suspended)
            /\ SameGetSameResponse)
    /\ [][/\ env' = env
          /\ ALLOWED_ORIGINS' = ALLOWED_ORIGINS
          /\ FLOWERSHOP_BASE' = FLOWERSHOP_BASE
          /\ CART_BASE' = CART_BASE
          /\ TREE_BASE' = TREE_BASE]_vars

\* two different requests are both in the middle of a redirect chain
C17_Witness ==
    /\ suspended # NoFrame
    /\ pc = "fetching"
    /\ suspended.pc = "fetching"
    /\ sent = 2
    /\ suspended.sent = 3
    /\ req.method = "POST"
    /\ suspended.req.method = "DELETE"

\* the same GET handled twice, each through a redirect to another host
C17_WitnessSameGet ==
    /\ suspended # NoFrame
    /\ pc = "returned"
    /\ suspended.pc = "returned"
    /\ req.method = "GET"
    /\ suspended.req = req
    /\ sent = 2
    /\ suspended.sent = 2
    /\ response.status = 200

====
